---- MODULE Spec2Model ----
(***************************************************************************)
(* redis_natives.set.Set: a set facade bound to one key of a redis store.  *)
(* The store is a map from keys to sets of wire strings; S is the Set      *)
(* bound to "test_key" and T the Set bound to "other_key", as in the       *)
(* fixture of tests/__init__.py (both of element type int).                *)
(***************************************************************************)
EXTENDS Integers, Sequences, FiniteSets, TLC

\* ------------------------------------------------------------------ bounds
MaxElem == 2        \* elements are the integers 1..MaxElem
MaxOps == 2         \* operands of one set-algebra call
MaxPending == 1     \* commands a failed call may leave queued in a pipe

\* ------------------------------------------------------------------ values
\* A python int n, the str "n" the store holds for it, and None.
IntV(n) == [t |-> "int", v |-> n]
StrV(n) == [t |-> "str", v |-> n]
None == [t |-> "None", v |-> 0]
ConversionError == [t |-> "TypeConversionError", v |-> 0]

Elems == {IntV(n) : n \in 1..MaxElem}
Wire == {StrV(n) : n \in 1..MaxElem}

\* The declared element type's conversions (redis_natives.datatypes).
type_prepare(x) == StrV(x.v)
type_convert(w) == IF w.t = "str" THEN IntV(w.v) ELSE ConversionError

\* The redis client sends every argument as its string form.
encode(x) == StrV(x.v)

\* ------------------------------------------------------------------ keys
test_key == "test_key"
other_key == "other_key"
temporary_key == "__temp__"
baseKey == "1300000000"
keyUnion == "1300000000union"
keyInter == "1300000000inter"
tmp_key(index) == IF index = 0 THEN "__temp__0"
                  ELSE IF index = 1 THEN "__temp__1"
                  ELSE IF index = 2 THEN "__temp__2" ELSE "__temp__3"

Bound == {test_key, other_key}
\* The keys the application binds a Set to: those of the fixture, and one
\* that happens to bear the name update stages its local operands under.
Objects == Bound \cup {temporary_key}
TempKeys == {temporary_key, keyUnion, keyInter} \cup {tmp_key(i) : i \in 0..(MaxOps - 1)}
Keys == Bound \cup TempKeys

\* ------------------------------------------------------------------ operands
\* An argument of a set-algebra call: another Set (by its key), a native
\* set, or an object of any other type.
RemoteRef(k) == [tag |-> "Set", key |-> k, elems |-> {}]
LocalSet(X) == [tag |-> "set", key |-> "", elems |-> X]
Other == [tag |-> "other", key |-> "", elems |-> {}]

Operands == {RemoteRef(other_key)} \cup {LocalSet(X) : X \in SUBSET Elems} \cup {Other}
OperandLists == UNION {[1..n -> Operands] : n \in 0..MaxOps}

\* ------------------------------------------------------------------ state
VARIABLES
    store,      \* the remote store: key -> set of wire strings ({} = key absent)
    pipe,       \* per Set object: the commands queued in its _pipe
    last,       \* the last facade call: its arguments, the store before, its outcome
    calls       \* concurrent clients: each one's call in progress

vars == <<store, pipe, last, calls>>

\* ------------------------------------------------------------------ store commands
smembers(st, k) == st[k]
scard(st, k) == Cardinality(st[k])
sismember(st, k, w) == w \in st[k]
\* the number of members SREM removes
srem(st, k, w) == IF w \in st[k] THEN 1 ELSE 0

RECURSIVE sunion(_, _)
sunion(st, keys) ==
    IF keys = <<>> THEN {} ELSE st[Head(keys)] \cup sunion(st, Tail(keys))

RECURSIVE sinter(_, _)
sinter(st, keys) ==
    IF Len(keys) = 1 THEN st[keys[1]] ELSE st[Head(keys)] \cap sinter(st, Tail(keys))

sdiff(st, keys) == st[keys[1]] \ sunion(st, Tail(keys))

\* A queued command.
Cmd(c, k, ks, e) == [cmd |-> c, key |-> k, keys |-> ks, el |-> e]
SADD(k, e) == Cmd("sadd", k, <<>>, encode(e))
SREM(k, e) == Cmd("srem", k, <<>>, encode(e))
DELETE(k) == Cmd("delete", k, <<>>, None)
SINTERSTORE(k, ks) == Cmd("sinterstore", k, ks, None)
SUNIONSTORE(k, ks) == Cmd("sunionstore", k, ks, None)
SDIFF(ks) == Cmd("sdiff", "", ks, None)

\* The store after one command.
Apply(st, c) ==
    IF c.cmd = "sadd" THEN [st EXCEPT ![c.key] = @ \cup {c.el}]
    ELSE IF c.cmd = "srem" THEN [st EXCEPT ![c.key] = @ \ {c.el}]
    ELSE IF c.cmd = "delete" THEN [st EXCEPT ![c.key] = {}]
    ELSE IF c.cmd = "sinterstore" THEN [st EXCEPT ![c.key] = sinter(st, c.keys)]
    ELSE IF c.cmd = "sunionstore" THEN [st EXCEPT ![c.key] = sunion(st, c.keys)]
    ELSE st

\* pipe.execute(): the queued commands applied in order.
RECURSIVE execute(_, _)
execute(st, cmds) ==
    IF cmds = <<>> THEN st ELSE execute(Apply(st, Head(cmds)), Tail(cmds))

\* ------------------------------------------------------------------ helpers
\* A python set's elements queued one command each (any iteration order:
\* the commands of one loop commute).
RECURSIVE SetToSeq(_)
SetToSeq(X) ==
    IF X = {} THEN <<>>
    ELSE LET x == CHOOSE y \in X : \A z \in X : y.v <= z.v
         IN <<x>> \o SetToSeq(X \ {x})

RECURSIVE Flatten(_)
Flatten(ss) == IF ss = <<>> THEN <<>> ELSE Head(ss) \o Flatten(Tail(ss))

\* Set.data: the members of the key, decoded.
data(st, k) == {type_convert(w) : w \in smembers(st, k)}

\* Set._split_by_type
RECURSIVE rset_keys_of(_)
rset_keys_of(others) ==
    IF others = <<>> THEN <<>>
    ELSE (IF Head(others).tag = "Set" THEN <<Head(others).key>> ELSE <<>>)
         \o rset_keys_of(Tail(others))

RECURSIVE native_sets_of(_)
native_sets_of(others) ==
    IF others = <<>> THEN <<>>
    ELSE (IF Head(others).tag = "set" THEN <<Head(others).elems>> ELSE <<>>)
         \o native_sets_of(Tail(others))

\* _split_by_type looking at the type of its first operand only
split_by_type_first_only(others) ==
    IF others # <<>> /\ others[1].tag \notin {"Set", "set"}
    THEN [status |-> "RedisTypeError", rset_keys |-> <<>>, sets |-> <<>>]
    ELSE [status |-> "ok", rset_keys |-> rset_keys_of(others),
          sets |-> native_sets_of(others)]

split_by_type(others) ==
    IF \E i \in 1..Len(others) : others[i].tag \notin {"Set", "set"}
    THEN [status |-> "RedisTypeError", rset_keys |-> <<>>, sets |-> <<>>]
    ELSE [status |-> "ok", rset_keys |-> rset_keys_of(others),
          sets |-> native_sets_of(others)]

\* What a call leaves behind: the store, the pipe of the object, how it
\* ended (ok or the error raised) and what it returned.
Outcome(st, pp, status, val) == [store |-> st, pipe |-> pp, status |-> status, val |-> val]

NoCalls == [c \in {} |-> 0]

\* No call in progress: the caller is between two facade calls.
Idle == [op |-> "idle", self |-> test_key, others |-> <<>>, arg |-> None,
         before |-> [k \in Keys |-> {}], pipeBefore |-> <<>>,
         status |-> "ok", val |-> None]

\* A facade call, made when no call is in progress and run to its end.
Record(op, self, others, arg, out) ==
    /\ last.op = "idle"
    /\ store' = out.store
    /\ pipe' = [pipe EXCEPT ![self] = out.pipe]
    /\ last' = [op |-> op, self |-> self, others |-> others, arg |-> arg,
                before |-> store, pipeBefore |-> pipe[self],
                status |-> out.status, val |-> out.val]
    /\ UNCHANGED calls

\* ------------------------------------------------------------------ facade
\* Set.add
add(st, pp, self, el) == Outcome(Apply(st, SADD(self, type_prepare(el))), pp, "ok", None)

\* Set.clear
clear(st, pp, self) == Outcome(Apply(st, DELETE(self)), pp, "ok", None)

\* Set.discard
discard(st, pp, self, member) ==
    Outcome(Apply(st, SREM(self, type_prepare(member))), pp, "ok", None)

\* remove that does not raise when the element is absent
remove_silent(st, pp, self, el) ==
    Outcome(Apply(st, SREM(self, type_prepare(el))), pp, "ok", None)

\* Set.remove
remove(st, pp, self, el) ==
    LET w == type_prepare(el)
    IN IF srem(st, self, w) = 0
       THEN Outcome(Apply(st, SREM(self, w)), pp, "RedisKeyError", None)
       ELSE Outcome(Apply(st, SREM(self, w)), pp, "ok", None)

\* Set.pop; value is the member the store picks at random (None when the
\* key is empty).
pop(st, pp, self, noRemove, value) ==
    LET st2 == IF noRemove \/ value = None THEN st ELSE Apply(st, SREM(self, value))
        el == type_convert(value)
    IN Outcome(st2, pp, IF el = ConversionError THEN el.t ELSE "ok", el)

\* ------------------------------------------------------------------ set algebra
RECURSIVE Minus(_, _)
Minus(d, sets) == IF sets = <<>> THEN d ELSE Minus(d \ Head(sets), Tail(sets))

RECURSIVE Inter(_, _)
Inter(d, sets) == IF sets = <<>> THEN d ELSE Inter(d \cap Head(sets), Tail(sets))

RECURSIVE Plus(_, _)
Plus(d, sets) == IF sets = <<>> THEN d ELSE Plus(d \cup Head(sets), Tail(sets))

SymDiff(A, B) == (A \ B) \cup (B \ A)

RECURSIVE SymFold(_, _)
SymFold(d, sets) == IF sets = <<>> THEN d ELSE SymFold(SymDiff(d, Head(sets)), Tail(sets))

\* for el in X: pipe.sadd(k, el)
sadd_all(k, X) == LET s == SetToSeq(X) IN [i \in 1..Len(s) |-> SADD(k, s[i])]

\* difference without the else branch (rset = self): rset is always what
\* sunion returned
difference_no_else(st, pp, self, others) ==
    LET sp == split_by_type(others)
    IN IF sp.status # "ok" THEN Outcome(st, pp, sp.status, None)
       ELSE Outcome(st, pp, "AttributeError", None)

\* Set.difference; with remote operands rset is the native set sunion
\* returned, which has no attribute data.
difference(st, pp, self, others) ==
    LET sp == split_by_type(others)
    IN IF sp.status # "ok" THEN Outcome(st, pp, sp.status, None)
       ELSE IF sp.rset_keys # <<>> THEN Outcome(st, pp, "AttributeError", None)
       ELSE Outcome(st, pp, "ok", Minus(data(st, self), sp.sets))

\* pipe.delete(self.key) forgotten
queue_delete_forgotten(pp, self) == pp

\* pipe.delete(self.key), queued first by difference_update and
\* symmetric_difference_update
queue_delete(pp, self) == Append(pp, DELETE(self))

\* difference_update sending its delete at once, before the content is read
difference_update_delete_first(st, pp, self, others) ==
    LET st1 == Apply(st, DELETE(self))
        d == difference(st1, pp, self, others)
    IN IF d.status # "ok" THEN Outcome(st1, pp, d.status, None)
       ELSE Outcome(execute(st1, pp \o sadd_all(self, d.val)), <<>>, "ok", None)

\* Set.difference_update
difference_update(st, pp, self, others) ==
    LET queued == queue_delete(pp, self)
        d == difference(st, queued, self, others)
    IN IF d.status # "ok" THEN Outcome(st, queued, d.status, None)
       ELSE Outcome(execute(st, queued \o sadd_all(self, d.val)), <<>>, "ok", None)

\* Set.intersection
intersection(st, pp, self, others) ==
    LET sp == split_by_type(others)
    IN IF sp.status # "ok" THEN Outcome(st, pp, sp.status, None)
       ELSE Outcome(st, pp, "ok", Inter(data(st, self), sp.sets))

\* Set.intersection_update: the commands it queues.
intersection_update_batch(self, sp) ==
    LET n == Len(sp.sets)
        staged == Flatten([i \in 1..n |-> sadd_all(tmp_key(i - 1), sp.sets[i])])
        rset_keys == sp.rset_keys \o [i \in 1..n |-> tmp_key(i - 1)]
    IN staged
       \o (IF rset_keys # <<>>
           THEN <<SINTERSTORE(self, Append(rset_keys, self))>> ELSE <<>>)
       \o <<DELETE(temporary_key)>>

intersection_update(st, pp, self, others) ==
    LET sp == split_by_type(others)
    IN IF sp.status # "ok" THEN Outcome(st, pp, sp.status, None)
       ELSE Outcome(execute(st, pp \o intersection_update_batch(self, sp)), <<>>, "ok", None)

\* Set.symmetric_difference: the commands it queues for remote operands.
symmetric_difference_batch(rset_keys) ==
    <<SINTERSTORE(keyUnion, rset_keys), SUNIONSTORE(keyInter, rset_keys),
      SDIFF(<<keyUnion, keyInter>>), DELETE(keyUnion), DELETE(keyInter)>>

\* Set.symmetric_difference
symmetric_difference(st, pp, self, others) ==
    LET sp == split_by_type(others)
        batch == symmetric_difference_batch(sp.rset_keys)
        st2 == IF sp.rset_keys # <<>> THEN execute(st, pp \o batch) ELSE st
        pp2 == IF sp.rset_keys # <<>> THEN <<>> ELSE pp
    IN IF sp.status # "ok" THEN Outcome(st, pp, sp.status, None)
       ELSE Outcome(st2, pp2, "ok", SymFold(data(st2, self), sp.sets))

\* Set.symmetric_difference_update
symmetric_difference_update(st, pp, self, others) ==
    LET queued == queue_delete(pp, self)
        d == symmetric_difference(st, queued, self, others)
    IN IF d.status # "ok" THEN Outcome(st, queued, d.status, None)
       ELSE Outcome(execute(d.store, d.pipe \o sadd_all(self, d.val)), <<>>, "ok", self)

\* union that merges only the first of its native sets
union_first_set_only(st, pp, self, others) ==
    LET sp == split_by_type(others)
        d == IF sp.rset_keys # <<>> THEN sunion(st, Append(sp.rset_keys, self))
             ELSE data(st, self)
    IN IF sp.status # "ok" THEN Outcome(st, pp, sp.status, None)
       ELSE Outcome(st, pp, "ok", IF sp.sets = <<>> THEN d ELSE d \cup sp.sets[1])

\* Set.union; with remote operands the result is what sunion returned
\* (wire strings), without type_convert.
union(st, pp, self, others) ==
    LET sp == split_by_type(others)
        d == IF sp.rset_keys # <<>> THEN sunion(st, Append(sp.rset_keys, self))
             ELSE data(st, self)
    IN IF sp.status # "ok" THEN Outcome(st, pp, sp.status, None)
       ELSE Outcome(st, pp, "ok", Plus(d, sp.sets))

\* update staging its local operands in a key of the target's own
update_batch_own_key(self, sp) ==
    LET n == Len(sp.sets)
        own == tmp_key(IF self = test_key THEN 0 ELSE 1)
        staged == Flatten([i \in 1..n |-> sadd_all(own, sp.sets[i])])
        rset_keys == sp.rset_keys \o (IF n > 0 THEN <<own>> ELSE <<>>)
    IN staged
       \o (IF rset_keys # <<>>
           THEN <<SUNIONSTORE(self, Append(rset_keys, self))>> ELSE <<>>)
       \o <<DELETE(own)>>

\* Set.update: the commands it queues.
update_batch(self, sp) ==
    LET n == Len(sp.sets)
        staged == Flatten([i \in 1..n |-> sadd_all(temporary_key, sp.sets[i])])
        rset_keys == sp.rset_keys \o (IF n > 0 THEN <<temporary_key>> ELSE <<>>)
    IN staged
       \o (IF rset_keys # <<>>
           THEN <<SUNIONSTORE(self, Append(rset_keys, self))>> ELSE <<>>)
       \o <<DELETE(temporary_key)>>

update(st, pp, self, others) ==
    LET sp == split_by_type(others)
    IN IF sp.status # "ok" THEN Outcome(st, pp, sp.status, None)
       ELSE Outcome(execute(st, pp \o update_batch(self, sp)), <<>>, "ok", None)

\* Set.isdisjoint: SINTER of the remote operands' keys (an error of the
\* store when there is none), then set.isdisjoint over the list of native
\* sets, whose items are unhashable.
isdisjoint(st, pp, self, others) ==
    LET sp == split_by_type(others)
    IN IF sp.status # "ok" THEN Outcome(st, pp, sp.status, None)
       ELSE IF sp.rset_keys = <<>> THEN Outcome(st, pp, "ResponseError", None)
       ELSE IF sp.sets # <<>> THEN Outcome(st, pp, "TypeError", None)
       ELSE Outcome(st, pp, "ok", TRUE)

\* issuperset that answers from the decoded members
issuperset_computed(st, pp, self, other) ==
    Outcome(st, pp, "ok", other.elems \subseteq data(st, self))

\* Set.issuperset
issuperset(st, pp, self, other) == Outcome(st, pp, "NotImplementedError", None)

\* The connection every Set of the fixture is built on.
client == "client"

\* Set(client, key): a Set object, by what its two attributes hold.
BoundSet(c, k) == [tag |-> "Set", client |-> c, key |-> k]

\* Reading a Set object (Set.data): SMEMBERS of its key sent over its
\* client; an object whose _client is not a connection cannot send it.
read_data(st, obj) ==
    IF obj.client = client /\ obj.key \in DOMAIN st THEN data(st, obj.key)
    ELSE {[t |-> "AttributeError", v |-> 0]}

\* Set.copy: SUNIONSTORE key <- [self.key], then Set(key, self._client),
\* the key given as client and the client as key. built: whether the base
\* class constructor accepts a client that is not a connection.
copy(st, pp, self, key, built) ==
    LET st2 == Apply(st, SUNIONSTORE(key, <<self>>))
    IN IF built THEN Outcome(st2, pp, "ok", BoundSet(key, client))
       ELSE Outcome(st2, pp, "AttributeError", None)

\* ------------------------------------------------------------------ actions
S == test_key
T == other_key

Add(self, el) == Record("add", self, <<>>, el, add(store, pipe[self], self, el))
Clear(self) == Record("clear", self, <<>>, None, clear(store, pipe[self], self))
Discard(self, el) == Record("discard", self, <<>>, el, discard(store, pipe[self], self, el))
Remove(self, el) == Record("remove", self, <<>>, el, remove(store, pipe[self], self, el))

Pop(self, noRemove) ==
    \E value \in (IF store[self] = {} THEN {None} ELSE store[self]) :
        Record("pop", self, <<>>, noRemove, pop(store, pipe[self], self, noRemove, value))

Difference(others) ==
    Record("difference", S, others, None, difference(store, pipe[S], S, others))

DifferenceUpdate(others) ==
    LET out == difference_update(store, pipe[S], S, others)
    IN /\ last.op = "idle"
       /\ Len(out.pipe) <= MaxPending
       /\ Record("difference_update", S, others, None, out)

Intersection(others) ==
    Record("intersection", S, others, None, intersection(store, pipe[S], S, others))

IntersectionUpdate(others) ==
    Record("intersection_update", S, others, None,
           intersection_update(store, pipe[S], S, others))

SymmetricDifference(others) ==
    Record("symmetric_difference", S, others, None,
           symmetric_difference(store, pipe[S], S, others))

SymmetricDifferenceUpdate(others) ==
    LET out == symmetric_difference_update(store, pipe[S], S, others)
    IN /\ last.op = "idle"
       /\ Len(out.pipe) <= MaxPending
       /\ Record("symmetric_difference_update", S, others, None, out)

Union(others) == Record("union", S, others, None, union(store, pipe[S], S, others))

\* S.union(A).union(B): what union returns is a native set, and the second
\* call is the native set's own union with the native set B.
UnionChained(A, B) ==
    LET first == union(store, pipe[S], S, <<A>>)
        out == IF first.status # "ok" THEN first
               ELSE Outcome(first.store, first.pipe, "ok", first.val \cup B.elems)
    IN Record("union_chained", S, <<A, B>>, None, out)

Update(others) == Record("update", S, others, None, update(store, pipe[S], S, others))

IsDisjoint(others) ==
    Record("isdisjoint", S, others, None, isdisjoint(store, pipe[S], S, others))

Copy(key) ==
    \E built \in BOOLEAN :
        Record("copy", S, <<>>, key, copy(store, pipe[S], S, key, built))

IsSuperset(other) ==
    Record("issuperset", S, <<other>>, None, issuperset(store, pipe[S], S, other))

Init ==
    /\ store = [k \in Keys |-> {}]
    /\ pipe = [o \in Objects |-> <<>>]
    /\ last = Idle
    /\ calls = NoCalls

\* The caller takes the result of the call and goes on.
Return ==
    /\ last.op # "idle"
    /\ last' = Idle
    /\ UNCHANGED <<store, pipe, calls>>

Next ==
    \/ \E self \in Objects, el \in Elems : Add(self, el)
    \/ \E self \in Objects : Clear(self)
    \/ \E self \in Bound, el \in Elems : Discard(self, el)
    \/ \E self \in Bound, el \in Elems : Remove(self, el)
    \/ \E self \in Bound, noRemove \in BOOLEAN : Pop(self, noRemove)
    \/ \E others \in OperandLists : Difference(others)
    \/ \E others \in OperandLists : DifferenceUpdate(others)
    \/ \E others \in OperandLists : Intersection(others)
    \/ \E others \in OperandLists : IntersectionUpdate(others)
    \/ \E others \in OperandLists : SymmetricDifference(others)
    \/ \E others \in OperandLists : SymmetricDifferenceUpdate(others)
    \/ \E others \in OperandLists : Union(others)
    \/ \E A \in Operands, X \in SUBSET Elems : UnionChained(A, LocalSet(X))
    \/ \E others \in OperandLists : Update(others)
    \/ \E others \in OperandLists : IsDisjoint(others)
    \/ \E other \in Operands : IsSuperset(other)
    \/ \E key \in Bound : Copy(key)
    \/ Return

Spec == Init /\ [][Next]_vars

\* ------------------------------------------------------------------ concurrent clients
\* Two clients, each holding Set objects of its own on the shared store,
\* each making one *_update call. A call touches the store when it reads
\* (SMEMBERS) and when a command of a batch it submitted is applied; the
\* commands of a batch are applied in order, one by one.
Clients == {"A", "B"}
MaxConcOps == 1     \* operands of a concurrent call

UpdateOps == {"difference_update", "symmetric_difference_update", "update",
              "intersection_update"}
ConcOperandLists == {o \in OperandLists : Len(o) <= MaxConcOps}

NotCalled == [pc |-> "new", op |-> "none", self |-> test_key, others |-> <<>>,
              queue |-> <<>>, status |-> "ok", seen |-> [k \in Keys |-> {}],
              otherAtRead |-> "new", otherAtFirst |-> "unset"]

\* Client A works on S; client B on S or on T.
Targets(c) == IF c = "A" THEN {test_key} ELSE Bound

OtherClient(c) == CHOOSE d \in Clients : d # c

\* The call is made: everything up to its first wait for the store.
Begin(c, op, self, others) ==
    LET sp == split_by_type(others)
        queued == queue_delete(<<>>, self)
        d == difference(store, queued, self, others)
        call == [NotCalled EXCEPT !.op = op, !.self = self, !.others = others,
                                  !.seen = store,
                                  !.otherAtRead = calls[OtherClient(c)].pc]
        failed(status) == [call EXCEPT !.pc = "done", !.status = status]
        submit(batch) == [call EXCEPT !.pc = "exec", !.queue = batch]
    IN /\ calls[c].pc = "new"
       /\ calls' = [calls EXCEPT ![c] =
            IF op = "update"
            THEN IF sp.status # "ok" THEN failed(sp.status)
                 ELSE submit(update_batch(self, sp))
            ELSE IF op = "intersection_update"
            THEN IF sp.status # "ok" THEN failed(sp.status)
                 ELSE submit(intersection_update_batch(self, sp))
            ELSE IF op = "difference_update"
            THEN IF d.status # "ok" THEN failed(d.status)
                 ELSE submit(queued \o sadd_all(self, d.val))
            ELSE IF sp.status # "ok" THEN failed(sp.status)
                 ELSE IF sp.rset_keys # <<>>
                 THEN [call EXCEPT !.pc = "inner",
                                   !.queue = queued \o symmetric_difference_batch(sp.rset_keys)]
                 ELSE submit(queued \o sadd_all(self, SymFold(data(store, self), sp.sets)))]
       /\ UNCHANGED <<store, pipe, last>>

\* The store applies the next command of the batch client c submitted.
ApplyNext(c) ==
    LET call == calls[c]
        rest == Tail(call.queue)
    IN /\ call.pc \in {"inner", "exec"}
       /\ call.queue # <<>>
       /\ store' = Apply(store, Head(call.queue))
       /\ calls' = [calls EXCEPT ![c] =
            [call EXCEPT !.queue = rest,
                         !.pc = IF rest # <<>> THEN call.pc
                                ELSE IF call.pc = "inner" THEN "read" ELSE "done",
                         !.otherAtFirst = IF call.pc = "exec" /\ call.otherAtFirst = "unset"
                                          THEN calls[OtherClient(c)].pc ELSE @]]
       /\ UNCHANGED <<pipe, last>>

\* symmetric_difference, after its batch: data = self.data, then the
\* elements queued and submitted by symmetric_difference_update.
ReadData(c) ==
    LET call == calls[c]
        sp == split_by_type(call.others)
        batch == sadd_all(call.self, SymFold(data(store, call.self), sp.sets))
    IN /\ call.pc = "read"
       /\ calls' = [calls EXCEPT ![c] =
            [call EXCEPT !.queue = batch,
                         !.pc = IF batch = <<>> THEN "done" ELSE "exec"]]
       /\ UNCHANGED <<store, pipe, last>>

InitConc ==
    /\ store \in {[k \in Keys |-> IF k = test_key THEN X ELSE IF k = other_key THEN Y ELSE {}] :
                     X \in SUBSET Wire, Y \in SUBSET Wire}
    /\ pipe = [o \in Objects |-> <<>>]
    /\ last = Idle
    /\ calls = [c \in Clients |-> NotCalled]

NextConc ==
    \/ \E c \in Clients :
          \E op \in UpdateOps, self \in Targets(c), others \in ConcOperandLists :
              Begin(c, op, self, others)
    \/ \E c \in Clients : ApplyNext(c)
    \/ \E c \in Clients : ReadData(c)

SpecConc == InitConc /\ [][NextConc]_vars

\* ================================================================== claims
\* The decoded elements of an operand, read in store st.
OperandElems(st, o) == IF o.tag = "Set" THEN data(st, o.key) ELSE o.elems

Valid(others) == \A i \in 1..Len(others) : others[i].tag \in {"Set", "set"}
AllLocal(others) == \A i \in 1..Len(others) : others[i].tag = "set"

\* C1: S.difference(operands), operands remote collections and local sets
\* mixed, returns exactly the elements of S that are in none of the
\* operands.
C1_DifferenceIsSetDifference ==
    (last.op = "difference" /\ Valid(last.others)) =>
        /\ last.status = "ok"
        /\ last.val = {e \in data(last.before, S) :
                          \A i \in 1..Len(last.others) :
                              e \notin OperandElems(last.before, last.others[i])}

\* C2: S.intersection(operands) returns exactly the elements that are in S
\* and in every operand, remote or local.
C2_IntersectionIsSetIntersection ==
    (last.op = "intersection" /\ Valid(last.others)) =>
        /\ last.status = "ok"
        /\ last.val = {e \in data(last.before, S) :
                          \A i \in 1..Len(last.others) :
                              e \in OperandElems(last.before, last.others[i])}

\* C3: S.union(operands) returns exactly the elements that are in S or in
\* at least one operand, remote or local, and leaves the store as it was.
C3_UnionIsSetUnion ==
    (last.op = "union" /\ Valid(last.others)) =>
        /\ last.status = "ok"
        /\ last.val = data(last.before, S) \cup
                      UNION {OperandElems(last.before, last.others[i]) :
                                i \in 1..Len(last.others)}
        /\ store = last.before

\* C4: in every reachable state, S.intersection_update(X) with X one local
\* set leaves S holding exactly its content before intersected with X.
C4_IntersectionUpdateLocal ==
    (last.op = "intersection_update" /\ Len(last.others) = 1 /\ AllLocal(last.others)) =>
        data(store, S) = data(last.before, S) \cap last.others[1].elems

\* C5: after intersection_update, update or symmetric_difference returns,
\* no temporary key that the call created still exists.
C5_NoTemporaryKeyLeft ==
    (last.op \in {"intersection_update", "update", "symmetric_difference"}
     /\ last.status = "ok") =>
        \A k \in TempKeys : last.before[k] = {} => store[k] = {}

\* C6: pop(noRemove=True) never changes the length of S; pop() on a
\* non-empty S returns a member and decreases the length by exactly 1; pop
\* on an empty S raises the element-not-found error.
C6_Pop ==
    last.op = "pop" =>
        /\ last.arg => scard(store, last.self) = scard(last.before, last.self)
        /\ (~last.arg /\ last.before[last.self] # {}) =>
              /\ last.status = "ok"
              /\ last.val \in data(last.before, last.self)
              /\ scard(store, last.self) = scard(last.before, last.self) - 1
        /\ last.before[last.self] = {} => last.status = "RedisKeyError"

\* C7: S.isdisjoint(L) for a local set L returns True exactly when S and L
\* have no element in common.
C7_IsDisjointLocal ==
    (last.op = "isdisjoint" /\ Len(last.others) = 1 /\ AllLocal(last.others)) =>
        /\ last.status = "ok"
        /\ last.val = (data(last.before, S) \cap last.others[1].elems = {})

Serial(st, call) ==
    IF call.op = "update" THEN update(st, <<>>, call.self, call.others).store
    ELSE IF call.op = "intersection_update"
    THEN intersection_update(st, <<>>, call.self, call.others).store
    ELSE IF call.op = "difference_update"
    THEN difference_update(st, <<>>, call.self, call.others).store
    ELSE symmetric_difference_update(st, <<>>, call.self, call.others).store

\* Client a read S before client b called, and b's call was over before
\* the first command of a's batch was applied; both calls are over.
Overtaken(a, b) ==
    /\ a # b
    /\ calls[a].pc = "done" /\ calls[b].pc = "done"
    /\ calls[a].status = "ok" /\ calls[b].status = "ok"
    /\ calls[a].self = calls[b].self
    /\ calls[a].op \in {"difference_update", "symmetric_difference_update"}
    /\ AllLocal(calls[a].others)
    /\ calls[a].otherAtRead = "new"
    /\ calls[a].otherAtFirst = "done"

\* C9: of two concurrent *_update calls on the same key, a write made by
\* one caller between the other caller's read of S and its
\* delete-and-rewrite batch is lost: the key ends with what the other
\* caller computed from the content it read.
C9_LostUpdate ==
    \A a \in Clients, b \in Clients :
        Overtaken(a, b) =>
            LET call == calls[a]
                sets == native_sets_of(call.others)
                read == data(call.seen, call.self)
                val == IF call.op = "difference_update" THEN Minus(read, sets)
                       ELSE SymFold(read, sets)
            IN store[call.self] = {encode(e) : e \in val}

\* C9: such an interleaving ends with a content that is the result of
\* neither serial order of the two calls.
C9_NeitherSerialOrder ==
    \E a \in Clients, b \in Clients :
        /\ Overtaken(a, b)
        /\ calls[b].op \in UpdateOps
        /\ LET k == calls[a].self
               st0 == calls[a].seen
           IN /\ store[k] # Serial(Serial(st0, calls[a]), calls[b])[k]
              /\ store[k] # Serial(Serial(st0, calls[b]), calls[a])[k]

\* Client c's call has exactly one operand, a local set.
OneLocal(c) == Len(calls[c].others) = 1 /\ AllLocal(calls[c].others)

\* C10: the key that stages local operands is the same for every caller:
\* the store command of an update with one local operand unites the target
\* with whatever "__temp__" holds then, and that of an intersection_update
\* intersects it with whatever "__temp__0" holds then.
C10_SharedStagingKey ==
    [][\A c \in Clients :
          (/\ calls[c].pc = "exec"
           /\ calls'[c] # calls[c]
           /\ OneLocal(c)
           /\ Head(calls[c].queue).cmd \in {"sunionstore", "sinterstore"}) =>
              store'[calls[c].self] =
                  IF calls[c].op = "update"
                  THEN store[calls[c].self] \cup store["__temp__"]
                  ELSE store[calls[c].self] \cap store["__temp__0"]]_vars

\* C10: two concurrent calls on different target keys, each with one local
\* operand, after which one caller's target holds an element of the other
\* caller's operand that neither its own content nor its own operand had
\* (update), or kept an element its own operand does not have
\* (intersection_update).
C10_ForeignElements ==
    \E a \in Clients, b \in Clients :
        /\ a # b
        /\ calls[a].pc = "done" /\ calls[b].pc = "done"
        /\ calls[a].self # calls[b].self
        /\ OneLocal(a) /\ OneLocal(b)
        /\ calls[a].op = calls[b].op
        /\ LET own == {encode(e) : e \in calls[a].others[1].elems}
               foreign == {encode(e) : e \in calls[b].others[1].elems}
               target == store[calls[a].self]
           IN \/ /\ calls[a].op = "update"
                 /\ (target \cap foreign) \ (calls[a].seen[calls[a].self] \cup own) # {}
              \/ /\ calls[a].op = "intersection_update"
                 /\ (target \cap foreign) \ own # {}

\* C11: issuperset(other) signals that the operation is unsupported for
\* every S and every other, returns no boolean, and changes nothing in the
\* store.
C11_IsSupersetUnsupported ==
    last.op = "issuperset" =>
        /\ last.status = "NotImplementedError"
        /\ last.val = None
        /\ store = last.before
        /\ pipe[S] = last.pipeBefore

\* C11: issuperset was called on a non-empty S with a local set that S does
\* contain, and signalled that it is unsupported.
C11_SupersetAsked ==
    /\ last.op = "issuperset"
    /\ last.before[S] # {}
    /\ last.others[1].tag = "set"
    /\ last.others[1].elems # {}
    /\ last.others[1].elems \subseteq data(last.before, S)
    /\ last.status = "NotImplementedError"

AlgebraOps == {"difference", "intersection", "union", "symmetric_difference",
               "isdisjoint", "difference_update", "intersection_update",
               "symmetric_difference_update", "update"}

\* C12: a set-algebra call given an operand that is neither a Set nor a
\* native set/list fails with RedisTypeError (a TypeError), whatever the
\* position of that operand among valid ones.
C12_InvalidOperandTypeError ==
    (last.op \in AlgebraOps /\ ~Valid(last.others)) => last.status = "RedisTypeError"

\* C12: a call whose first operand is a Set and whose second operand is of
\* an invalid type failed with RedisTypeError.
C12_InvalidAfterValid ==
    /\ last.op \in AlgebraOps
    /\ Len(last.others) = 2
    /\ last.others[1].tag = "Set"
    /\ last.others[2].tag = "other"
    /\ last.status = "RedisTypeError"

\* C13: when a *_update call aborts with a local error, the store is as
\* it was before the call and no command queued by the failed call is left
\* pending in the pipe of the collection.
C13_FailedUpdateLeavesNothing ==
    (last.op \in UpdateOps /\ last.status # "ok") =>
        /\ store = last.before
        /\ pipe[S] = last.pipeBefore

\* C14: S.difference() called with no operands returns exactly the current
\* content of S and leaves S unchanged.
C14_DifferenceNoOperands ==
    (last.op = "difference" /\ last.others = <<>>) =>
        /\ last.status = "ok"
        /\ last.val = data(last.before, S)
        /\ store = last.before

\* C14: difference() was called with no operands on a non-empty S.
C14_NoOperandsNonEmpty ==
    /\ last.op = "difference"
    /\ last.others = <<>>
    /\ last.before[S] # {}
    /\ last.val = data(store, S)

\* C15: for every content of S and all local sets A and B,
\* S.union(A).union(B) equals S.union(A, B).
C15_UnionFlattens ==
    (last.op = "union_chained" /\ AllLocal(last.others)) =>
        LET multi == union(last.before, last.pipeBefore, S, last.others)
        IN /\ last.status = "ok"
           /\ multi.status = "ok"
           /\ last.val = multi.val

\* C15: the chained call was made with a non-empty S and two local sets
\* neither of which holds the other, each bringing an element S had not.
C15_TwoOperandsBothCount ==
    /\ last.op = "union_chained"
    /\ AllLocal(last.others)
    /\ last.status = "ok"
    /\ last.before[S] # {}
    /\ last.others[1].elems \ last.others[2].elems # {}
    /\ last.others[2].elems \ last.others[1].elems # {}
    /\ (last.others[1].elems \cup last.others[2].elems) \ data(last.before, S) # {}

\* C16: after S.update(operands) with any mix of remote and local operands,
\* S holds exactly its content before united with the elements of every
\* operand; with no operands S is unchanged; the remote operand
\* collections keep their content.
C16_UpdateIsUnion ==
    (last.op = "update" /\ Valid(last.others)) =>
        /\ last.status = "ok"
        /\ data(store, S) = data(last.before, S) \cup
                            UNION {OperandElems(last.before, last.others[i]) :
                                      i \in 1..Len(last.others)}
        /\ last.others = <<>> => store[S] = last.before[S]
        /\ \A i \in 1..Len(last.others) :
              last.others[i].tag = "Set" =>
                  store[last.others[i].key] = last.before[last.others[i].key]

\* C17: for a single operand O, remote collection or local set,
\* S.symmetric_difference(O) returns exactly the elements that are in S or
\* in O but not in both.
C17_SymmetricDifferenceSingle ==
    (last.op = "symmetric_difference" /\ Len(last.others) = 1 /\ Valid(last.others)) =>
        /\ last.status = "ok"
        /\ last.val = SymDiff(data(last.before, S),
                              OperandElems(last.before, last.others[1]))

C19_CopyReturnsBoundCopy ==
    last.op = "copy" =>
        /\ last.status = "ok"
        /\ store[S] = last.before[S]
        /\ store[last.arg] = last.before[S]
        /\ last.val = BoundSet(client, last.arg)
        /\ read_data(store, last.val) = data(last.before, S)

\* C20: every set-algebra call on S, non-mutating or *_update, leaves the
\* content of every store key other than the key of S as it was before the
\* call, the remote operand collections and the keys that bear the name of
\* a temporary key included.
C20_OtherKeysUntouched ==
    last.op \in AlgebraOps =>
        \A k \in Keys \ {last.self} : store[k] = last.before[k]
====
